---- MODULE Spec2Model ----
(***************************************************************************)
(* Model of app/main.py: the in-memory session store (sessions,            *)
(* sessions_lock), the rule based reply policy (rule_based_reply) and the  *)
(* three endpoints chat, get_session and delete_session, run by a pool of  *)
(* worker threads.                                                         *)
(*                                                                         *)
(* Texts are TLA+ strings handled character by character.  A non-ASCII     *)
(* character of a literal of the source is written "#"; no rule of the     *)
(* source looks at those characters.                                       *)
(***************************************************************************)
EXTENDS Integers, Sequences, FiniteSets, TLC

(* ------------------------------------------------------------------ *)
(* Bounds of the model                                                 *)
(* ------------------------------------------------------------------ *)
\* requests started in one behaviour of Spec
MaxRequests == 3
\* chat turns of one behaviour of SpecDialog
MaxTurns == 3

(* ------------------------------------------------------------------ *)
(* str.strip, str.lower, the "in" operator on strings                  *)
(* ------------------------------------------------------------------ *)
UpperCase == "ABCDEFGHIJKLMNOPQRSTUVWXYZ"
LowerCase == "abcdefghijklmnopqrstuvwxyz"

Char(s, i) == SubSeq(s, i, i)

IsSpace(c) == c \in {" ", "\t", "\n"}

UpperChars == {Char(UpperCase, i) : i \in 1..Len(UpperCase)}
LowerOf ==
    [c \in UpperChars |->
        Char(LowerCase, CHOOSE i \in 1..Len(UpperCase) : Char(UpperCase, i) = c)]

LowerChar(c) == IF c \in UpperChars THEN LowerOf[c] ELSE c

\* str.lower() of the characters of s from position i on
RECURSIVE lowerFrom(_, _)
lowerFrom(s, i) ==
    IF i > Len(s) THEN "" ELSE LowerChar(Char(s, i)) \o lowerFrom(s, i + 1)

lower(s) == lowerFrom(s, 1)

RECURSIVE lstrip(_)
lstrip(s) ==
    IF s # "" /\ IsSpace(Char(s, 1)) THEN lstrip(SubSeq(s, 2, Len(s))) ELSE s

RECURSIVE rstrip(_)
rstrip(s) ==
    IF s # "" /\ IsSpace(Char(s, Len(s))) THEN rstrip(SubSeq(s, 1, Len(s) - 1)) ELSE s

strip(s) == rstrip(lstrip(s))

\* needle in s
Contains(needle, s) ==
    \E t \in {s} :
        \E i \in 1..(Len(t) - Len(needle) + 1) : SubSeq(t, i, i + Len(needle) - 1) = needle

(* ------------------------------------------------------------------ *)
(* ChatMessage and the reply policy                                    *)
(* ------------------------------------------------------------------ *)
ChatMessage(role, content) == [role |-> role, content |-> content]

greetings == {"hi", "hello", "hey", "good morning", "good evening"}

EmptyReply == "Please type something and try again."
HelloAgainReply == "Hello again! #### What would you like to do next?"
HelloReply == "Hello! #### How can I help you today?"
AskDayReply == "I can help with hours. What day are you asking about?"
ByeReply == "Bye! Have a great day."
DefaultReply == "Thanks! I###m a simple stateful bot now. Try 'hi' or ask about 'hours'."
\* the acknowledgement built from the lower-cased text t
GotItLowered(day) ==
    "Got it ### you're asking about " \o lower(day) \o ". (We###ll add real hours later.)"

GotItReply(day) ==
    "Got it ### you're asking about " \o day \o ". (We###ll add real hours later.)"

DayQuestion == "what day are you asking about"

\* the count with the test of the content left out: every user message counts
CountUserMessages(history) ==
    Cardinality({i \in 1..Len(history) : history[i].role = "user"})

\* the count with the role test on the wrong role
CountBotGreetings(history) ==
    Cardinality({i \in 1..Len(history) :
        history[i].role = "bot" /\ lower(strip(history[i].content)) \in greetings})

\* the greeting messages of the user that rule_based_reply counts in history
user_greeting_count(history) ==
    Cardinality({i \in 1..Len(history) :
        history[i].role = "user" /\ lower(strip(history[i].content)) \in greetings})

\* the count from which a greeting gets the "Hello again" variant
GreetingThreshold == 2

\* next((m for m in reversed(history) if m.role == "bot"), None), as an index; 0 is None
last_bot(history) ==
    IF \E i \in 1..Len(history) : history[i].role = "bot"
    THEN CHOOSE i \in 1..Len(history) :
            /\ history[i].role = "bot"
            /\ \A j \in (i + 1)..Len(history) : history[j].role # "bot"
    ELSE 0

\* the last bot message of history asked about a day
AwaitingDay(history) ==
    /\ Len(history) > 0
    /\ last_bot(history) # 0
    /\ Contains(DayQuestion, lower(history[last_bot(history)].content))

AsksHours(t) == Contains("hours", t) \/ Contains("open", t)

SaysBye(t) == Contains("bye", t) \/ Contains("goodbye", t)

\* the rules with the context rule moved in front of the greeting rule
ReplyContextFirst(text, history) ==
    LET t == lower(strip(text)) IN
    IF t = "" THEN EmptyReply
    ELSE IF AwaitingDay(history) THEN GotItReply(strip(text))
    ELSE IF t \in greetings THEN
        IF user_greeting_count(history) >= GreetingThreshold
        THEN HelloAgainReply
        ELSE HelloReply
    ELSE IF AsksHours(t) THEN AskDayReply
    ELSE IF SaysBye(t) THEN ByeReply
    ELSE DefaultReply

rule_based_reply(text, history) ==
    LET t == lower(strip(text)) IN
    IF t = "" THEN EmptyReply
    ELSE IF t \in greetings THEN
        IF user_greeting_count(history) >= GreetingThreshold
        THEN HelloAgainReply
        ELSE HelloReply
    ELSE IF AwaitingDay(history) THEN GotItReply(strip(text))
    ELSE IF AsksHours(t) THEN AskDayReply
    ELSE IF SaysBye(t) THEN ByeReply
    ELSE DefaultReply

(* ------------------------------------------------------------------ *)
(* State                                                               *)
(* ------------------------------------------------------------------ *)
VARIABLES
    sessions,       \* the dict sessions: session id -> reference of its list,
                    \*   NoList for an id that is no key of the dict
    heap,           \* the list objects: reference -> sequence of ChatMessage
    sessions_lock,  \* the worker holding sessions_lock, or NoProc
    pc,             \* worker -> the statement it is at
    req,            \* worker -> the request it handles
    local,          \* worker -> the local variables of its handler
    resp,           \* worker -> the response of its last finished request
    issued,         \* the values uuid4 has returned
    known,          \* the values of uuid4 that a response has given to a client
    started,        \* requests started so far
    committed,      \* session id -> the messages, as sent, of the chat calls that
                    \*   left the critical section since the last delete of the id
    lastOp,         \* session id -> last of chat/delete that left the critical section
    before,         \* worker -> the dict sessions as it was when its request took
                    \*   the lock
    afterDelete     \* worker -> its request took the lock right after a
                    \*   delete_session of its session id left the critical section

vars == <<sessions, heap, sessions_lock, pc, req, local, resp, issued, known, started,
          committed, lastOp, before, afterDelete>>

\* the threads of the server's worker pool
WorkerPool == <<"w1", "w2">>
Workers == {WorkerPool[i] : i \in 1..Len(WorkerPool)}
NoProc == "none"

\* Optional[str]: None is the empty tuple, a string s is <<s>>
None == <<>>
Some(s) == <<s>>

\* bool(x) of an Optional[str], as "or" evaluates it
Truthy(x) == x # None /\ x[1] # ""

\* the values uuid4 can return
Uuids == {"uuid-1", "uuid-2"}
\* the session ids clients make up themselves
ClientIds == {"a"}
AllIds == ClientIds \cup Uuids \cup {""}

\* message texts sent in Spec
Texts == {"hi", " Hours? "}
\* message texts sent in SpecDialog
DialogTexts ==
    {"", "  ", "hi", " Hello ", "HEY", "Monday", "Open hours, bye",
     "What are your hours?", "hours bye", "goodbye", "thanks",
     "What day are you asking about"}

NoReq == [op |-> "none", message |-> "", session_id |-> None]
NoLocal == [session_id |-> "", message |-> "", history |-> 0, reply |-> "",
            existed |-> FALSE]
NoResp == [op |-> "none", status |-> 0]

\* the names bound in the module's namespace when a handler runs
ModuleNames ==
    {"FastAPI", "BaseModel", "Field", "uuid4", "Lock", "Dict", "List", "Literal",
     "Optional", "app", "ChatRequest", "ChatMessage", "ChatResponse", "sessions",
     "sessions_lock", "rule_based_reply", "health", "chat", "get_session",
     "delete_session"}

\* no list object: the value None of a local, an id that is no key of sessions
NoList == 0
\* session_id in sessions
Has(id) == sessions[id] # NoList
\* the keys of sessions
Keys == {id \in AllIds : Has(id)}

\* the history stored for a session id; Absent when the id is no key of sessions
Absent == <<"absent">>
Stored(id) == IF Has(id) THEN heap[sessions[id]] ELSE Absent

Init ==
    /\ sessions = [id \in AllIds |-> NoList]
    /\ heap = <<>>
    /\ sessions_lock = NoProc
    /\ pc = [p \in Workers |-> "idle"]
    /\ req = [p \in Workers |-> NoReq]
    /\ local = [p \in Workers |-> NoLocal]
    /\ resp = [p \in Workers |-> NoResp]
    /\ issued = {}
    /\ known = {}
    /\ started = 0
    /\ committed = [id \in AllIds |-> <<>>]
    /\ lastOp = [id \in AllIds |-> "none"]
    /\ before = [p \in Workers |-> <<>>]
    /\ afterDelete = [p \in Workers |-> FALSE]

(* ------------------------------------------------------------------ *)
(* with sessions_lock:                                                 *)
(* ------------------------------------------------------------------ *)
\* a lock that never makes a thread wait
AcquireWithoutWaiting(p) == TRUE

\* Lock.acquire returns only when no thread holds the lock
CanAcquire(p) == sessions_lock = NoProc

Acquire(p, next) ==
    /\ CanAcquire(p)
    /\ sessions_lock' = p
    /\ pc' = [pc EXCEPT ![p] = next]
    /\ before' = [before EXCEPT ![p] = sessions]
    /\ afterDelete' = [afterDelete EXCEPT ![p] = (lastOp[local[p].session_id] = "delete")]

\* an exit of the with block that leaves the lock held
LeavesLocked(p, next) ==
    /\ sessions_lock' = sessions_lock
    /\ pc' = [pc EXCEPT ![p] = next]
    /\ UNCHANGED <<before, afterDelete>>

Release(p, next) ==
    /\ sessions_lock' = NoProc
    /\ pc' = [pc EXCEPT ![p] = next]
    /\ UNCHANGED <<before, afterDelete>>

(* ------------------------------------------------------------------ *)
(* The worker pool                                                     *)
(* ------------------------------------------------------------------ *)
\* a new request goes to an idle thread; the threads are interchangeable, so
\* it goes to the first idle one of the pool
Dispatch(p) ==
    /\ pc[p] = "idle"
    /\ \A i, j \in 1..Len(WorkerPool) :
          WorkerPool[j] = p /\ i < j => pc[WorkerPool[i]] # "idle"

(* ------------------------------------------------------------------ *)
(* chat                                                                *)
(* ------------------------------------------------------------------ *)
\* req.session_id or str(uuid4()): the ids the expression can evaluate to
ResolveIds(sid) == IF Truthy(sid) THEN {sid[1]} ELSE Uuids \ issued

\* lines 128-131: strip the message, resolve the session id
ChatBegin(p, m, sid) ==
    /\ Dispatch(p)
    /\ \E id \in ResolveIds(sid) :
        /\ local' = [local EXCEPT ![p] =
                        [NoLocal EXCEPT !.message = strip(m), !.session_id = id]]
        /\ issued' = IF Truthy(sid) THEN issued ELSE issued \cup {id}
    /\ req' = [req EXCEPT ![p] = [op |-> "chat", message |-> m, session_id |-> sid]]
    /\ resp' = [resp EXCEPT ![p] = NoResp]
    /\ pc' = [pc EXCEPT ![p] = "chat_lock"]
    /\ started' = started + 1
    /\ before' = [before EXCEPT ![p] = <<>>]
    /\ afterDelete' = [afterDelete EXCEPT ![p] = FALSE]
    /\ UNCHANGED <<sessions, heap, sessions_lock, known, committed, lastOp>>

\* line 133
ChatAcquire(p) ==
    /\ pc[p] = "chat_lock"
    /\ Acquire(p, "chat_get")
    /\ UNCHANGED <<sessions, heap, req, local, resp, issued, known, started, committed, lastOp>>

\* [] in place of sessions.get(session_id, []): every call starts a new list
AlwaysNew(id) == Len(heap) + 1

\* sessions.get(session_id, DEFAULT) with one list DEFAULT made at import
SharedDefault(id) == IF Has(id) THEN sessions[id] ELSE 1

\* sessions.get(session_id, []): the list of the session, or a new empty list
GetOrNew(id) == IF Has(id) THEN sessions[id] ELSE Len(heap) + 1

\* line 134
ChatGet(p) ==
    /\ pc[p] = "chat_get"
    /\ LET h == GetOrNew(local[p].session_id) IN
        /\ heap' = IF h > Len(heap) THEN Append(heap, <<>>) ELSE heap
        /\ local' = [local EXCEPT ![p].history = h]
    /\ pc' = [pc EXCEPT ![p] = "chat_user"]
    /\ UNCHANGED <<sessions, sessions_lock, req, resp, issued, known, started, committed,
                   lastOp, before, afterDelete>>

\* list.append
ListAppend(h, msg) == [heap EXCEPT ![h] = Append(@, msg)]

\* line 137
ChatAppendUser(p) ==
    /\ pc[p] = "chat_user"
    /\ heap' = ListAppend(local[p].history, ChatMessage("user", local[p].message))
    /\ pc' = [pc EXCEPT ![p] = "chat_reply"]
    /\ UNCHANGED <<sessions, sessions_lock, req, local, resp, issued, known, started,
                   committed, lastOp, before, afterDelete>>

\* line 140
ChatReply(p) ==
    /\ pc[p] = "chat_reply"
    /\ local' = [local EXCEPT ![p].reply =
                    rule_based_reply(local[p].message, heap[local[p].history])]
    /\ pc' = [pc EXCEPT ![p] = "chat_bot"]
    /\ UNCHANGED <<sessions, heap, sessions_lock, req, resp, issued, known, started,
                   committed, lastOp, before, afterDelete>>

\* line 143
ChatAppendBot(p) ==
    /\ pc[p] = "chat_bot"
    /\ heap' = ListAppend(local[p].history, ChatMessage("bot", local[p].reply))
    /\ pc' = [pc EXCEPT ![p] = "chat_save"]
    /\ UNCHANGED <<sessions, sessions_lock, req, local, resp, issued, known, started,
                   committed, lastOp, before, afterDelete>>

\* line 146
ChatSave(p) ==
    /\ pc[p] = "chat_save"
    /\ sessions' = [sessions EXCEPT ![local[p].session_id] = local[p].history]
    /\ pc' = [pc EXCEPT ![p] = "chat_unlock"]
    /\ UNCHANGED <<heap, sessions_lock, req, local, resp, issued, known, started,
                   committed, lastOp, before, afterDelete>>

\* the end of the with block of chat
ChatRelease(p) ==
    /\ pc[p] = "chat_unlock"
    /\ Release(p, "chat_return")
    /\ committed' = [committed EXCEPT ![local[p].session_id] =
                        Append(@, req[p].message)]
    /\ lastOp' = [lastOp EXCEPT ![local[p].session_id] = "chat"]
    /\ UNCHANGED <<sessions, heap, req, local, resp, issued, known, started>>

\* line 148: ChatResponse copies the list it is given
ChatReturn(p) ==
    /\ pc[p] = "chat_return"
    /\ resp' = [resp EXCEPT ![p] =
                  [op |-> "chat", status |-> 200,
                   session_id |-> local[p].session_id,
                   reply |-> local[p].reply,
                   history |-> heap[local[p].history]]]
    /\ known' = known \cup ({local[p].session_id} \cap Uuids)
    /\ local' = [local EXCEPT ![p] = NoLocal]
    /\ pc' = [pc EXCEPT ![p] = "idle"]
    /\ UNCHANGED <<sessions, heap, sessions_lock, req, issued, started, committed,
                   lastOp, before, afterDelete>>

(* ------------------------------------------------------------------ *)
(* get_session                                                         *)
(* ------------------------------------------------------------------ *)
GetBegin(p, id) ==
    /\ Dispatch(p)
    /\ req' = [req EXCEPT ![p] = [op |-> "get_session", message |-> "",
                                  session_id |-> Some(id)]]
    /\ local' = [local EXCEPT ![p] = [NoLocal EXCEPT !.session_id = id]]
    /\ resp' = [resp EXCEPT ![p] = NoResp]
    /\ pc' = [pc EXCEPT ![p] = "get_lock"]
    /\ started' = started + 1
    /\ before' = [before EXCEPT ![p] = <<>>]
    /\ afterDelete' = [afterDelete EXCEPT ![p] = FALSE]
    /\ UNCHANGED <<sessions, heap, sessions_lock, issued, known, committed, lastOp>>

\* line 156
GetAcquire(p) ==
    /\ pc[p] = "get_lock"
    /\ Acquire(p, "get_read")
    /\ UNCHANGED <<sessions, heap, req, local, resp, issued, known, started, committed, lastOp>>

\* sessions.setdefault(session_id, []) in place of sessions.get(session_id):
\* the read makes an unknown id a key
GetReadCreates(p) ==
    /\ pc[p] = "get_read"
    /\ LET h == GetOrNew(local[p].session_id) IN
        /\ heap' = IF h > Len(heap) THEN Append(heap, <<>>) ELSE heap
        /\ sessions' = [sessions EXCEPT ![local[p].session_id] = h]
        /\ local' = [local EXCEPT ![p].history = h]
    /\ pc' = [pc EXCEPT ![p] = "get_unlock"]
    /\ UNCHANGED <<sessions_lock, req, resp, issued, known, started, committed,
                   lastOp, before, afterDelete>>

\* line 157: sessions.get(session_id), None for an unknown id
GetRead(p) ==
    /\ pc[p] = "get_read"
    /\ local' = [local EXCEPT ![p].history = sessions[local[p].session_id]]
    /\ pc' = [pc EXCEPT ![p] = "get_unlock"]
    /\ UNCHANGED <<sessions, heap, sessions_lock, req, resp, issued, known, started,
                   committed, lastOp, before, afterDelete>>

\* the end of the with block of get_session
GetRelease(p) ==
    /\ pc[p] = "get_unlock"
    /\ Release(p, "get_check")
    /\ UNCHANGED <<sessions, heap, req, local, resp, issued, known, started, committed, lastOp>>

\* line 160: raise HTTPException(status_code=404, ...). The name is looked up
\* when the statement runs; a name the module never bound raises NameError,
\* which the server answers with status 500.
RaiseNotFound ==
    IF "HTTPException" \in ModuleNames
    THEN [op |-> "get_session", status |-> 404, error |-> "HTTPException"]
    ELSE [op |-> "get_session", status |-> 500, error |-> "NameError"]

\* lines 159-162
GetCheck(p) ==
    /\ pc[p] = "get_check"
    /\ IF local[p].history = NoList
       THEN /\ resp' = [resp EXCEPT ![p] = RaiseNotFound]
            /\ local' = [local EXCEPT ![p] = NoLocal]
            /\ pc' = [pc EXCEPT ![p] = "idle"]
       ELSE /\ pc' = [pc EXCEPT ![p] = "get_send"]
            /\ UNCHANGED <<resp, local>>
    /\ UNCHANGED <<sessions, heap, sessions_lock, req, issued, known, started, committed,
                   lastOp, before, afterDelete>>

\* line 151, response_model: the returned list is read when the response is built
GetSend(p) ==
    /\ pc[p] = "get_send"
    /\ resp' = [resp EXCEPT ![p] =
                  [op |-> "get_session", status |-> 200,
                   history |-> heap[local[p].history]]]
    /\ local' = [local EXCEPT ![p] = NoLocal]
    /\ pc' = [pc EXCEPT ![p] = "idle"]
    /\ UNCHANGED <<sessions, heap, sessions_lock, req, issued, known, started, committed,
                   lastOp, before, afterDelete>>

(* ------------------------------------------------------------------ *)
(* delete_session                                                      *)
(* ------------------------------------------------------------------ *)
DeleteBegin(p, id) ==
    /\ Dispatch(p)
    /\ req' = [req EXCEPT ![p] = [op |-> "delete_session", message |-> "",
                                  session_id |-> Some(id)]]
    /\ local' = [local EXCEPT ![p] = [NoLocal EXCEPT !.session_id = id]]
    /\ resp' = [resp EXCEPT ![p] = NoResp]
    /\ pc' = [pc EXCEPT ![p] = "del_lock"]
    /\ started' = started + 1
    /\ before' = [before EXCEPT ![p] = <<>>]
    /\ afterDelete' = [afterDelete EXCEPT ![p] = FALSE]
    /\ UNCHANGED <<sessions, heap, sessions_lock, issued, known, committed, lastOp>>

\* line 170
DeleteAcquire(p) ==
    /\ pc[p] = "del_lock"
    /\ Acquire(p, "del_check")
    /\ UNCHANGED <<sessions, heap, req, local, resp, issued, known, started, committed, lastOp>>

\* the membership test left out
AlwaysExisted(id) == TRUE

\* session_id in sessions
Existed(id) == Has(id)

\* lines 171-172
DeleteCheck(p) ==
    /\ pc[p] = "del_check"
    /\ LET existed == Existed(local[p].session_id) IN
        /\ local' = [local EXCEPT ![p].existed = existed]
        /\ pc' = [pc EXCEPT ![p] = IF existed THEN "del_del" ELSE "del_unlock"]
    /\ UNCHANGED <<sessions, heap, sessions_lock, req, resp, issued, known, started,
                   committed, lastOp, before, afterDelete>>

\* line 173: del sessions[session_id], KeyError for an id that is no key
DeleteDel(p) ==
    /\ pc[p] = "del_del"
    /\ IF Has(local[p].session_id)
       THEN /\ sessions' = [sessions EXCEPT ![local[p].session_id] = NoList]
            /\ pc' = [pc EXCEPT ![p] = "del_unlock"]
            /\ UNCHANGED <<resp, local, sessions_lock, before, afterDelete>>
       ELSE /\ resp' = [resp EXCEPT ![p] =
                          [op |-> "delete_session", status |-> 500,
                           error |-> "KeyError"]]
            /\ local' = [local EXCEPT ![p] = NoLocal]
            /\ Release(p, "idle")
            /\ UNCHANGED sessions
    /\ UNCHANGED <<heap, req, issued, known, started, committed, lastOp>>

\* the end of the with block of delete_session
DeleteRelease(p) ==
    /\ pc[p] = "del_unlock"
    /\ Release(p, "del_return")
    /\ committed' = [committed EXCEPT ![local[p].session_id] = <<>>]
    /\ lastOp' = [lastOp EXCEPT ![local[p].session_id] = "delete"]
    /\ UNCHANGED <<sessions, heap, req, local, resp, issued, known, started>>

\* line 175
DeleteReturn(p) ==
    /\ pc[p] = "del_return"
    /\ resp' = [resp EXCEPT ![p] =
                  [op |-> "delete_session", status |-> 200,
                   deleted |-> local[p].existed,
                   session_id |-> local[p].session_id]]
    /\ local' = [local EXCEPT ![p] = NoLocal]
    /\ pc' = [pc EXCEPT ![p] = "idle"]
    /\ UNCHANGED <<sessions, heap, sessions_lock, req, issued, known, started, committed,
                   lastOp, before, afterDelete>>

(* ------------------------------------------------------------------ *)
(* Specifications                                                      *)
(* ------------------------------------------------------------------ *)
\* the values of session_id a client can put in a chat request
SuppliedIds == {None, Some("")} \cup {Some(id) : id \in ClientIds \cup known}
\* the ids a client can put in the path of /sessions/{session_id}
PathIds == ClientIds \cup known

\* every worker serves any request, any interleaving of the workers' statements
Next ==
    \E p \in Workers :
        \/ /\ started < MaxRequests
           /\ \E m \in Texts, sid \in SuppliedIds : ChatBegin(p, m, sid)
        \/ ChatAcquire(p)
        \/ ChatGet(p)
        \/ ChatAppendUser(p)
        \/ ChatReply(p)
        \/ ChatAppendBot(p)
        \/ ChatSave(p)
        \/ ChatRelease(p)
        \/ ChatReturn(p)
        \/ /\ started < MaxRequests
           /\ \E id \in PathIds : GetBegin(p, id)
        \/ GetAcquire(p)
        \/ GetRead(p)
        \/ GetRelease(p)
        \/ GetCheck(p)
        \/ GetSend(p)
        \/ /\ started < MaxRequests
           /\ \E id \in PathIds : DeleteBegin(p, id)
        \/ DeleteAcquire(p)
        \/ DeleteCheck(p)
        \/ DeleteDel(p)
        \/ DeleteRelease(p)
        \/ DeleteReturn(p)

Spec == Init /\ [][Next]_vars

\* the statements of a request that worker p has taken on
WorkerStep(p) ==
    \/ ChatAcquire(p) \/ ChatGet(p) \/ ChatAppendUser(p) \/ ChatReply(p)
    \/ ChatAppendBot(p) \/ ChatSave(p) \/ ChatRelease(p) \/ ChatReturn(p)
    \/ GetAcquire(p) \/ GetRead(p) \/ GetRelease(p) \/ GetCheck(p) \/ GetSend(p)
    \/ DeleteAcquire(p) \/ DeleteCheck(p) \/ DeleteDel(p) \/ DeleteRelease(p)
    \/ DeleteReturn(p)

\* Spec with every thread scheduled again and again: a thread that can run its
\* next statement, or can take the lock, does so in the end
FairSpec == Spec /\ \A p \in Workers : WF_vars(WorkerStep(p))

\* one client talking to one session, one message after the other
DialogNext ==
    \/ /\ started < MaxTurns
       /\ \E m \in DialogTexts : ChatBegin("w1", m, Some("a"))
    \/ ChatAcquire("w1")
    \/ ChatGet("w1")
    \/ ChatAppendUser("w1")
    \/ ChatReply("w1")
    \/ ChatAppendBot("w1")
    \/ ChatSave("w1")
    \/ ChatRelease("w1")
    \/ ChatReturn("w1")

SpecDialog == Init /\ [][DialogNext]_vars

(* ------------------------------------------------------------------ *)
(* Properties                                                          *)
(* ------------------------------------------------------------------ *)
\* the roles of h alternate user, bot, user, bot, ...
Alternates(h) ==
    \A k \in 1..Len(h) : h[k].role = IF k % 2 = 1 THEN "user" ELSE "bot"

\* C1: whenever no request is inside the critical section, an id on which N >= 1
\* chat calls have completed since its last delete holds a history of exactly 2N
\* entries whose roles alternate user, bot, ... starting with user.
C1_TwoEntriesPerChat ==
    sessions_lock = NoProc =>
        \A id \in AllIds :
            Len(committed[id]) >= 1 =>
                /\ Has(id)
                /\ Len(Stored(id)) = 2 * Len(committed[id])
                /\ Alternates(Stored(id))

\* two chat calls on one id ran at the same time and both have left the critical
\* section
C1_Witness ==
    /\ sessions_lock = NoProc
    /\ pc["w1"] = "chat_return" /\ pc["w2"] = "chat_return"
    /\ local["w1"].session_id = local["w2"].session_id
    /\ Len(committed[local["w1"].session_id]) = 2
    /\ Len(Stored(local["w1"].session_id)) = 4

\* C2: whenever no request is inside the critical section, every stored history
\* consists of whole turns: each user message is directly followed by the bot
\* reply computed for that message from the history up to and including it, and
\* the user messages are exactly those of the chat calls completed on the id
\* since its last delete, in the order they took the lock (none is lost).
C2_TurnsAreAtomic ==
    sessions_lock = NoProc =>
        \A id \in Keys :
            LET h == Stored(id) IN
            /\ Len(h) = 2 * Len(committed[id])
            /\ \A n \in 1..Len(committed[id]) :
                /\ h[2 * n - 1] = ChatMessage("user", strip(committed[id][n]))
                /\ h[2 * n] = ChatMessage("bot",
                        rule_based_reply(h[2 * n - 1].content, SubSeq(h, 1, 2 * n - 1)))

\* a chat call waited for the lock while another chat call on the same id was
\* between its two appends, and both turns are stored
C2_Witness ==
    /\ sessions_lock = NoProc
    /\ \E p, q \in Workers :
        /\ p # q
        /\ pc[p] = "idle" /\ resp[p].op = "chat"
        /\ pc[q] = "chat_return"
        /\ resp[p].session_id = local[q].session_id
        /\ Len(resp[p].history) = 2
        /\ Len(Stored(local[q].session_id)) = 4
        /\ Stored(local[q].session_id)[4].content = local[q].reply

\* C3: a get_session request that does not end with status 200 (its id was no
\* key of sessions) ends with the not-found response, status 404.
C3_UnknownIdIsNotFound ==
    \A p \in Workers :
        (resp[p].op = "get_session" /\ resp[p].status # 200) =>
            (resp[p].status = 404 /\ resp[p].error = "HTTPException")

\* the chat requests whose reply is computed and not yet appended
Replying == {p \in Workers : pc[p] = "chat_bot"}
\* the history such a request found: its list without the user message just appended
Found(p) == SubSeq(heap[local[p].history], 1, Len(heap[local[p].history]) - 1)
\* the text of the request as the rules compare it
Trimmed(p) == lower(strip(req[p].message))
\* the greeting messages of the user in h
Greeted(h) ==
    Cardinality({k \in 1..Len(h) :
        h[k].role = "user" /\ lower(strip(h[k].content)) \in greetings})
\* the last message of h is a bot message holding the question about the day
AskedDay(h) ==
    /\ Len(h) > 0
    /\ h[Len(h)].role = "bot"
    /\ Contains(DayQuestion, lower(h[Len(h)].content))

\* C4: when the most recent bot message of the session is the 'ask which day'
\* prompt, a message that is neither empty nor a greeting gets the
\* acknowledgement holding the text as sent (outer whitespace removed, letter
\* case kept), and not the default reply, whatever triggers the text contains.
C4_DayAnswerIsAcknowledged ==
    \A p \in Replying :
        ( /\ Len(Found(p)) > 0
          /\ Found(p)[Len(Found(p))] = ChatMessage("bot", AskDayReply)
          /\ Trimmed(p) # ""
          /\ Trimmed(p) \notin greetings )
        =>
        ( /\ local[p].reply =
                "Got it ### you're asking about " \o strip(req[p].message)
                    \o ". (We###ll add real hours later.)"
          /\ local[p].reply # DefaultReply
          /\ local[p].reply # AskDayReply
          /\ local[p].reply # ByeReply )

\* the answer to the day question has capital letters and holds 'open', 'hours'
\* and 'bye'
C4_Witness ==
    \E p \in Replying :
        /\ Len(Found(p)) > 0
        /\ Found(p)[Len(Found(p))] = ChatMessage("bot", AskDayReply)
        /\ strip(req[p].message) # Trimmed(p)
        /\ Contains("hours", Trimmed(p))
        /\ Contains("open", Trimmed(p))
        /\ Contains("bye", Trimmed(p))
        /\ Contains(strip(req[p].message), local[p].reply)

C6_GreetingEscalates ==
    \A id \in Keys :
        ( /\ sessions_lock = NoProc
          /\ Len(committed[id]) >= 3
          /\ lower(strip(committed[id][1])) \in greetings
          /\ committed[id][2] = committed[id][1]
          /\ committed[id][3] = committed[id][1] )
        =>
        ( /\ Stored(id)[2].content = HelloReply
          /\ Stored(id)[6].content = HelloAgainReply
          /\ Stored(id)[6].content # Stored(id)[2].content )

\* three turns of the same greeting are stored
C6_Witness ==
    /\ sessions_lock = NoProc
    /\ committed["a"] = <<" Hello ", " Hello ", " Hello ">>
    /\ Len(Stored("a")) = 6
    /\ Stored("a")[6].content # Stored("a")[2].content

\* C7: when delete_session has run its body and still holds the lock, its flag
\* existed tells whether the id was a key when it took the lock, the id is no
\* key any more and no other key changed; an id that was missing leaves the
\* dict as it was, and so does a delete that follows a delete of the same id
\* with no chat on it in between, whose flag is false. Every delete_session
\* response has status 200 and carries the flag as deleted.
C7_DeleteTellsWhetherItExisted ==
    \A p \in Workers :
        /\ pc[p] = "del_unlock" =>
            LET id == local[p].session_id IN
            /\ local[p].existed = (before[p][id] # NoList)
            /\ ~Has(id)
            /\ \A other \in AllIds \ {id} : sessions[other] = before[p][other]
            /\ ~local[p].existed => sessions = before[p]
            /\ lastOp[id] = "delete" => ~local[p].existed
        /\ resp[p].op = "delete_session" =>
            /\ resp[p].status = 200
            /\ resp[p].deleted = (before[p][resp[p].session_id] # NoList)
            /\ resp[p].session_id = req[p].session_id[1]

\* the second of two deletes of an id that existed: the first answered true, no
\* chat came in between, the second found nothing
C7_Witness ==
    \E p, q \in Workers :
        /\ p # q
        /\ resp[p].op = "delete_session" /\ resp[p].deleted
        /\ pc[q] = "del_unlock"
        /\ local[q].session_id = resp[p].session_id
        /\ lastOp[local[q].session_id] = "delete"
        /\ ~local[q].existed

\* the user messages of the chat calls that completed on id, as they are stored
Sent(id) == [n \in 1..Len(committed[id]) |-> ChatMessage("user", strip(committed[id][n]))]
\* the user messages of a history
UserMessages(h) == [n \in 1..(Len(h) \div 2) |-> h[2 * n - 1]]

\* C8: the history stored for an id changes only in a step of a chat or
\* delete_session request on that very id, which holds the lock; and whenever no
\* request is inside the critical section each session holds the user messages
\* sent to it and no others.
C8_Isolation ==
    /\ [][\A id \in AllIds :
            Stored(id)' # Stored(id) =>
                /\ sessions_lock \in Workers
                /\ local[sessions_lock].session_id = id
                /\ req[sessions_lock].op \in {"chat", "delete_session"}]_vars
    /\ [](sessions_lock = NoProc =>
            \A id \in Keys : UserMessages(Stored(id)) = Sent(id))

\* two sessions were created by two chat calls running at the same time, and
\* each holds its own message
C8_Witness ==
    /\ sessions_lock = NoProc
    /\ pc["w1"] = "chat_return" /\ pc["w2"] = "chat_return"
    /\ local["w1"].session_id # local["w2"].session_id
    /\ local["w1"].message # local["w2"].message
    /\ Len(Stored(local["w1"].session_id)) = 2
    /\ Len(Stored(local["w2"].session_id)) = 2
    /\ Stored(local["w1"].session_id)[1].content = local["w1"].message
    /\ Stored(local["w2"].session_id)[1].content = local["w2"].message

\* C9: a chat response to a request that supplied a session id, whatever string
\* it is, carries that id.
C9_SuppliedIdIsKept ==
    \A p \in Workers :
        (resp[p].op = "chat" /\ req[p].session_id # None) =>
            resp[p].session_id = req[p].session_id[1]

\* the replies the decision list allows for text in a session whose history
\* before the message is h
Decision(text, h) ==
    LET t == lower(strip(text)) IN
    CASE t = "" -> {EmptyReply}
      [] t # "" /\ t \in greetings -> {HelloReply, HelloAgainReply}
      [] t # "" /\ t \notin greetings /\ AskedDay(h) ->
            {"Got it ### you're asking about " \o strip(text)
                \o ". (We###ll add real hours later.)"}
      [] t # "" /\ t \notin greetings /\ ~AskedDay(h)
            /\ (Contains("hours", t) \/ Contains("open", t)) -> {AskDayReply}
      [] t # "" /\ t \notin greetings /\ ~AskedDay(h)
            /\ ~(Contains("hours", t) \/ Contains("open", t))
            /\ Contains("bye", t) -> {ByeReply}
      [] OTHER -> {DefaultReply}

\* C10: every stored turn holds the reply of the first rule that matches, in the
\* order empty text, greeting, answer to the day question, hours/open, bye,
\* default; a reply is always produced.
C10_FirstMatchWins ==
    sessions_lock = NoProc =>
        \A id \in Keys :
            \A n \in 1..(Len(Stored(id)) \div 2) :
                Stored(id)[2 * n].content \in
                    Decision(Stored(id)[2 * n - 1].content,
                             SubSeq(Stored(id), 1, 2 * n - 2))

\* 'hours bye' in the neutral state got the day question, and the greeting sent
\* in answer to that question got a greeting reply, not the acknowledgement
C10_Witness ==
    /\ sessions_lock = NoProc
    /\ Len(Stored("a")) = 4
    /\ Stored("a")[1].content = "hours bye"
    /\ Stored("a")[2].content = AskDayReply
    /\ Stored("a")[3].content \in {"hi", "Hello", "HEY"}
    /\ Stored("a")[4].content = HelloReply

\* C11: the history of a chat response ends with the turn of its own request:
\* its last entry is the bot message holding the reply of the same response and
\* the entry before it is the user message of the request.
C11_ResponseEndsWithOwnTurn ==
    \A p \in Workers :
        resp[p].op = "chat" =>
            LET h == resp[p].history IN
            /\ Len(h) >= 2
            /\ h[Len(h)] = ChatMessage("bot", resp[p].reply)
            /\ h[Len(h) - 1] = ChatMessage("user", strip(req[p].message))

\* g starts with the entries of h, unchanged and in the same order
IsPrefix(h, g) == Len(h) <= Len(g) /\ SubSeq(g, 1, Len(h)) = h

C13_GetSeesWholeTurns ==
    \A p \in Workers :
        (resp[p].op = "get_session" /\ resp[p].status = 200) =>
            /\ Len(resp[p].history) % 2 = 0
            /\ Alternates(resp[p].history)

\* C14: after every completed chat turn the last bot message of the session
\* holds the question about the day exactly when the reply of that turn was the
\* fixed 'ask which day' prompt; the acknowledgement never holds it.
C14_AwaitingLastsOneTurn ==
    sessions_lock = NoProc =>
        \A id \in Keys :
            \A n \in 1..(Len(Stored(id)) \div 2) :
                Contains(DayQuestion, lower(Stored(id)[2 * n].content))
                    <=> Stored(id)[2 * n].content = AskDayReply

\* C15: a chat call that is the first to take the lock after a delete_session of
\* its session id answers as a brand-new session does: its response holds a
\* history of exactly 2 entries, the user message and the reply computed from
\* that message alone.
C15_ChatAfterDeleteStartsAnew ==
    \A p \in Workers :
        (resp[p].op = "chat" /\ afterDelete[p]) =>
            LET m == ChatMessage("user", strip(req[p].message)) IN
            /\ resp[p].reply = rule_based_reply(m.content, <<m>>)
            /\ resp[p].history = <<m, ChatMessage("bot", resp[p].reply)>>

\* the worker that takes the step, if the step is one of a request of kind op
Steps(p, op) == pc'[p] # pc[p] /\ (req[p].op = op \/ req'[p].op = op)

\* C16: only chat creates sessions. No step of a get_session or delete_session
\* request makes an id a key of the dict, a step of get_session changes neither
\* the dict nor any list, and whenever no request is inside the critical section
\* every key of the dict has a completed chat call since its last delete.
C16_OnlyChatCreates ==
    /\ [][\A p \in Workers :
            /\ (Steps(p, "get_session") \/ Steps(p, "delete_session")) =>
                    \A id \in AllIds : Has(id)' => Has(id)
            /\ Steps(p, "get_session") => (sessions' = sessions /\ heap' = heap)]_vars
    /\ [](sessions_lock = NoProc =>
            \A id \in Keys : Len(committed[id]) >= 1)

\* a get_session of an existing session answered with its history and left it
\* stored, and a delete_session of an id never used in a chat answered false
\* and left the id unknown
C16_Witness ==
    \E p, q \in Workers :
        /\ resp[p].op = "get_session" /\ resp[p].status = 200
        /\ Stored(req[p].session_id[1]) = resp[p].history
        /\ resp[q].op = "delete_session" /\ ~resp[q].deleted
        /\ ~Has(resp[q].session_id)
        /\ committed[resp[q].session_id] = <<>>

\* the statements inside a with sessions_lock block
CriticalPcs ==
    {"chat_get", "chat_user", "chat_reply", "chat_bot", "chat_save", "chat_unlock",
     "get_read", "get_unlock", "del_check", "del_del", "del_unlock"}
\* the statements at which a request waits for the lock
WaitingPcs == {"chat_lock", "get_lock", "del_lock"}

\* C17: under fair scheduling every started request completes, and the lock is
\* held exactly by the one request that is inside its with block: it is free
\* whenever no request is inside a critical section, on every exit path.
C17_EveryRequestCompletes ==
    /\ [](\A p \in Workers : (sessions_lock = p) <=> (pc[p] \in CriticalPcs))
    /\ [](sessions_lock = NoProc <=> \A p \in Workers : pc[p] \notin CriticalPcs)
    /\ \A p \in Workers : (pc[p] # "idle") ~> (pc[p] = "idle")

\* a request waits for the lock while a get_session of an unknown id, on its
\* way to the not-found path, holds it
C17_Witness ==
    \E p, q \in Workers :
        /\ pc[p] \in WaitingPcs
        /\ sessions_lock = q
        /\ pc[q] = "get_unlock"
        /\ local[q].history = NoList

====
